---- MODULE Spec2Model ----
(***************************************************************************)
(* IRGenerate (libsolidity/codegen/ir/IRGenerate.cpp): the AST visitor     *)
(* that lowers a contract to a JULIA block holding one function per        *)
(* defined function, two helper functions and the dispatcher switch.       *)
(*                                                                         *)
(* C++ strings are modelled as sequences of string pieces, so that the     *)
(* concatenation `+` is \o and the empty string is << >>.  A source        *)
(* location is the path of the node in its source: << >> is the default    *)
(* constructed SourceLocation.                                             *)
(***************************************************************************)
EXTENDS Integers, Sequences, FiniteSets

VARIABLES
    m_contracts,        \* IRGenerate::m_contracts: qualified name -> Block (or nullptr)
    m_body,             \* IRGenerate::m_body: the Block being filled, as the name it is registered under
    m_currentFunction,  \* IRGenerate::m_currentFunction: assembly::FunctionDefinition
    pc,                 \* position of the traversal: "idle", "listAccept", "body"
    call,               \* the ContractDefinition passed to the latest visit(ContractDefinition)
    idx,                \* listAccept: index of the function being (or next to be) visited
    stack,              \* statements of the current function body still to be accepted
    error,              \* outcome of the latest visit(ContractDefinition)
    scope               \* the family of source units the run draws its contracts from

vars == <<m_contracts, m_body, m_currentFunction, pc, call, idx, stack, error, scope>>

-----------------------------------------------------------------------------
(* Bounds of the model *)

\* longest list of functions a contract defines
MaxFunctions == 2

\* largest number of statement nodes in the function bodies of a contract
\* (scope "lowering")
MaxStmts == 4

-----------------------------------------------------------------------------
(* Values *)

NullPtr == [null |-> TRUE]

EmptyString == << >>

DefaultLocation == << >>

NoError == [kind |-> "none", message |-> ""]

UnsupportedFeature(msg) == [kind |-> "UnsupportedFeature", message |-> msg]

InternalInconsistency == [kind |-> "InternalInconsistency", message |-> ""]

-----------------------------------------------------------------------------
(* The abstract syntax trees handed to the visitor *)

ThrowShape == [kind |-> "Throw", statements |-> << >>]

InlineAssemblyShape == [kind |-> "InlineAssembly", statements |-> << >>]

BlockShape(stmts) == [kind |-> "Block", statements |-> stmts]

\* statement lists (Forests) and statements (Trees) of exactly n nodes
RECURSIVE Forests(_), Trees(_)
Trees(n) ==
    IF n = 1 THEN {ThrowShape, InlineAssemblyShape, BlockShape(<< >>)}
    ELSE {BlockShape(c) : c \in Forests(n - 1)}

Forests(n) ==
    IF n = 0 THEN {<< >>}
    ELSE UNION {{<<t>> \o r : t \in Trees(k), r \in Forests(n - k)} : k \in 1..n}

\* the statement lists of exactly n nodes, for every n up to the bound
ForestsOf == [n \in 0..MaxStmts |-> Forests(n)]

\* the number of statement nodes of a statement list
RECURSIVE Nodes(_)
Nodes(stmts) ==
    IF stmts = << >> THEN 0
    ELSE 1 + Nodes(Head(stmts).statements) + Nodes(Tail(stmts))

\* the number of statement nodes of the bodies of a list of functions
RECURSIVE BodyNodes(_)
BodyNodes(fs) ==
    IF fs = << >> THEN 0 ELSE Nodes(Head(fs).body) + BodyNodes(Tail(fs))

\* every node gets the location of its position in the source, and an inline
\* assembly statement the assembly block the parser attached to it
RECURSIVE Locate(_, _)
Locate(stmts, at) ==
    [i \in 1..Len(stmts) |->
        LET s == stmts[i]
            here == Append(at, i)
        IN  [kind       |-> s.kind,
             statements |-> Locate(s.statements, here),
             operations |-> IF s.kind = "InlineAssembly"
                            THEN [stmt |-> "Block", statements |-> <<[stmt |-> "Instruction", location |-> here]>>, location |-> here]
                            ELSE NullPtr,
             location   |-> here]]

ContractNames(s) == IF s = "registry" THEN {"A", "B"} ELSE {"C"}

FunctionNames(s) ==
    IF s = "lowering" THEN {<<"f">>, <<"g">>}
    ELSE IF s = "registry" THEN {<<"f">>}
    ELSE {EmptyString, <<"f">>, <<"g">>}

\* the bodies a function may have when `left` statement nodes are left
BodyShapes(s, left) ==
    IF s = "lowering" THEN UNION {ForestsOf[n] : n \in 0..left}
    ELSE IF s = "registry" THEN {<<BlockShape(<<ThrowShape>>), InlineAssemblyShape>>}
    ELSE {<< >>, <<ThrowShape, BlockShape(<<InlineAssemblyShape>>)>>}

\* a function as the elaborator leaves it: the fallback has no name and is
\* not part of the external interface, only external functions are payable
FunctionShapes(s, left) ==
    {f \in [name : FunctionNames(s), isPartOfExternalInterface : BOOLEAN,
            isPayable : BOOLEAN, body : BodyShapes(s, left)] :
        /\ f.name = EmptyString => ~f.isPartOfExternalInterface
        /\ (f.name # EmptyString /\ ~f.isPartOfExternalInterface) => ~f.isPayable
        /\ s = "lowering" => (f.isPartOfExternalInterface /\ ~f.isPayable)
        /\ (s = "registry" /\ f.name # EmptyString) => f.isPartOfExternalInterface}

\* the lists of at most n functions; no two functions of a contract share a
\* signature, and the bodies together hold at most MaxStmts statement nodes
RECURSIVE FunctionListsUpTo(_, _)
FunctionListsUpTo(s, n) ==
    IF n = 0 THEN {<< >>}
    ELSE LET shorter == FunctionListsUpTo(s, n - 1)
         IN  shorter \cup
             UNION {{Append(fs, f) : f \in {g \in FunctionShapes(s, MaxStmts - BodyNodes(fs)) :
                                               \A i \in 1..Len(fs) : fs[i].name # g.name}} :
                    fs \in {t \in shorter : Len(t) = n - 1}}

FunctionListShapes(s) == FunctionListsUpTo(s, MaxFunctions)

DefinedFunctions(cname, fs) ==
    [i \in 1..Len(fs) |->
        [name                      |-> fs[i].name,
         isPartOfExternalInterface |-> fs[i].isPartOfExternalInterface,
         isPayable                 |-> fs[i].isPayable,
         body                      |-> [kind |-> "Block",
                                        statements |-> Locate(fs[i].body, <<cname, i, 0>>),
                                        operations |-> NullPtr,
                                        location |-> <<cname, i, 0>>],
         location                  |-> <<cname, i>>]]

DispatchLists == FunctionListShapes("dispatch")

LoweringLists == FunctionListShapes("lowering")

RegistryLists == FunctionListShapes("registry")

FunctionLists(s) ==
    IF s = "lowering" THEN LoweringLists
    ELSE IF s = "registry" THEN RegistryLists
    ELSE DispatchLists

Lists(x) == {<< >>, <<x>>}

\* the contract-level attributes read by visit(ContractDefinition)
Headers ==
    [contractKind : {"Contract", "Library", "Interface"},
     baseContracts : Lists("Base"), definedStructs : Lists("S"), definedEnums : Lists("E"),
     events : Lists("Ev"), functionModifiers : Lists("m")]

\* the attributes of a contract that passes every restriction
SupportedHeader ==
    [contractKind |-> "Contract", baseContracts |-> << >>, definedStructs |-> << >>,
     definedEnums |-> << >>, events |-> << >>, functionModifiers |-> << >>]

\* the supported contract and the contracts one attribute away from it
NearlySupportedHeaders ==
    {SupportedHeader,
     [SupportedHeader EXCEPT !.contractKind = "Library"],
     [SupportedHeader EXCEPT !.contractKind = "Interface"],
     [SupportedHeader EXCEPT !.baseContracts = <<"Base">>],
     [SupportedHeader EXCEPT !.definedStructs = <<"S">>],
     [SupportedHeader EXCEPT !.definedEnums = <<"E">>],
     [SupportedHeader EXCEPT !.events = <<"Ev">>],
     [SupportedHeader EXCEPT !.functionModifiers = <<"m">>]}

\* the contract attributes of a scope: every combination where the registry
\* is the subject, one restriction at a time elsewhere
HeadersOf(s) == IF s = "registry" THEN Headers ELSE NearlySupportedHeaders

\* the function-level attributes read by visit(FunctionDefinition)
FunctionAttributes ==
    [isImplemented : BOOLEAN, modifiers : Lists("m"),
     parameters : Lists("uint256"), returnParameters : Lists("uint256")]

\* ContractDefinition::fullyQualifiedName
fullyQualifiedName(_contract) == _contract.name

\* ContractDefinition::fallbackFunction: the defined function without a name
fallbackFunction(_contract) ==
    LET fs == _contract.definedFunctions
        S == {i \in 1..Len(fs) : fs[i].name = EmptyString}
    IN  IF S = {} THEN NullPtr ELSE fs[CHOOSE i \in S : \A j \in S : i <= j]

\* FunctionDefinition::externalSignature: name + "(" + parameter types + ")";
\* a function that is visited has no parameters
externalSignature(_function) == _function.name \o <<"(", ")">>

\* dev::keccak256: the digest, kept symbolic
keccak256(_input) == <<"keccak256[">> \o _input \o <<"]">>

\* FixedHash<4>(h256): the first four bytes of the digest
FixedHash4(_hash) == <<"bytes4[">> \o _hash \o <<"]">>

\* dev::toHex without prefix
toHex(_data) == <<"hex[">> \o _data \o <<"]">>

\* dev::toHex(..., HexPrefix::Add)
toHexPrefixed(_data) == <<"0x">> \o toHex(_data)

-----------------------------------------------------------------------------
(* The emitted tree (libsolidity/inlineasm/AsmData.h) *)

EmptyBlock == [stmt |-> "Block", statements |-> << >>, location |-> DefaultLocation]

\* IRGenerate::createFunctionCall
createFunctionCall(_function) ==
    [stmt |-> "FunctionCall", functionName |-> _function, arguments |-> << >>,
     location |-> DefaultLocation]

\* IRGenerate::wrapInBlock
wrapInBlock(_statement) ==
    [stmt |-> "Block", statements |-> <<_statement>>, location |-> DefaultLocation]

\* IRGenerate::createRevert
createRevert ==
    LET zero == [stmt |-> "Literal", kind |-> "Number", value |-> <<"0">>, type |-> <<"u256">>]
    IN  [stmt |-> "FunctionCall", functionName |-> <<"revert">>, arguments |-> <<zero, zero>>,
         location |-> DefaultLocation]

\* uniqueFunctionName without the special case of the fallback
uniqueFunctionNameHashed(_function) ==
    <<"_">> \o _function.name \o <<"_">> \o toHex(keccak256(externalSignature(_function)))

\* uniqueFunctionName
uniqueFunctionName(_function) ==
    IF _function.name = EmptyString
    THEN <<"fallback">>
    ELSE <<"_">> \o _function.name \o <<"_">> \o toHex(keccak256(externalSignature(_function)))

\* the selector literal of one dispatcher case
selectorLiteral(_function) ==
    [stmt  |-> "Literal",
     kind  |-> "Number",
     value |-> toHexPrefixed(FixedHash4(keccak256(externalSignature(_function)))),
     type  |-> <<"u256">>]

\* the guard put in front of the payable functions instead
valueGuardInverted(_function) ==
    IF _function.isPayable
    THEN <<createFunctionCall(<<"ensureNoValueTransfer">>)>>
    ELSE << >>

\* the guard of a case body: present unless the function is payable
valueGuard(_function) ==
    IF ~_function.isPayable
    THEN <<createFunctionCall(<<"ensureNoValueTransfer">>)>>
    ELSE << >>

\* the case of one externally callable function
selectorCase(_function) ==
    [value |-> selectorLiteral(_function),
     body  |-> [stmt |-> "Block",
                statements |-> valueGuard(_function)
                               \o <<createFunctionCall(uniqueFunctionName(_function))>>,
                location |-> DefaultLocation]]

\* the loop without its `continue`
hasCaseAlways(_function) == TRUE

\* whether the loop over the defined functions gives the function a case
hasCase(_function) == _function.isPartOfExternalInterface

\* the loop over definedFunctions(), from the function at index i on
RECURSIVE selectorCases(_, _)
selectorCases(fs, i) ==
    IF i > Len(fs) THEN << >>
    ELSE IF ~hasCase(fs[i]) THEN selectorCases(fs, i + 1)
    ELSE <<selectorCase(fs[i])>> \o selectorCases(fs, i + 1)

\* the default case that ignores the fallback function
defaultCaseRevert(_contract) ==
    [value |-> NullPtr, body |-> wrapInBlock(createRevert)]

\* the default case
defaultCase(_contract) ==
    LET fallback == fallbackFunction(_contract)
    IN  [value |-> NullPtr,
         body  |-> IF fallback # NullPtr
                   THEN [stmt |-> "Block",
                         statements |-> valueGuard(fallback)
                                        \o <<createFunctionCall(<<"fallback">>)>>,
                         location |-> DefaultLocation]
                   ELSE wrapInBlock(createRevert)]

\* the switch statement built by buildDispatcher
dispatcherSwitch(_contract) ==
    [stmt       |-> "Switch",
     expression |-> createFunctionCall(<<"extractCallSignature">>),
     cases      |-> selectorCases(_contract.definedFunctions, 1) \o <<defaultCase(_contract)>>,
     location   |-> DefaultLocation]

IRGenerated(at) == <<"<irgenerated>">> \o at

NumberLiteral(v, at) ==
    [stmt |-> "Literal", kind |-> "Number", value |-> <<v>>, type |-> <<"u256">>,
     location |-> IRGenerated(at)]

ParsedCall(name, args, at) ==
    [stmt |-> "FunctionCall", functionName |-> <<name>>, arguments |-> args,
     location |-> IRGenerated(at)]

\* the two helper functions of the snippet handed to appendFunction, parsed
DispatcherHelpers ==
    << [stmt |-> "FunctionDefinition",
        name |-> <<"ensureNoValueTransfer">>,
        arguments |-> << >>,
        returns |-> << >>,
        body |-> [stmt |-> "Block",
                  statements |->
                    <<[stmt |-> "Switch",
                       expression |-> ParsedCall("callvalue", << >>, <<1, 1, 0>>),
                       cases |-> <<[value |-> NumberLiteral("0", <<1, 1, 1>>),
                                    body |-> [stmt |-> "Block", statements |-> << >>,
                                              location |-> IRGenerated(<<1, 1, 1>>)]],
                                   [value |-> NullPtr,
                                    body |-> [stmt |-> "Block",
                                              statements |->
                                                <<ParsedCall("revert",
                                                    <<NumberLiteral("0", <<1, 1, 2, 1>>),
                                                      NumberLiteral("0", <<1, 1, 2, 2>>)>>,
                                                    <<1, 1, 2>>)>>,
                                              location |-> IRGenerated(<<1, 1, 2>>)]]>>,
                       location |-> IRGenerated(<<1, 1>>)]>>,
                  location |-> IRGenerated(<<1, 0>>)],
        location |-> IRGenerated(<<1>>)],
       [stmt |-> "FunctionDefinition",
        name |-> <<"extractCallSignature">>,
        arguments |-> << >>,
        returns |-> <<[name |-> <<"sig">>, type |-> <<"u256">>]>>,
        body |-> [stmt |-> "Block",
                  statements |->
                    <<[stmt |-> "Assignment",
                       variableName |-> <<"sig">>,
                       value |-> ParsedCall("div",
                                    <<ParsedCall("calldataload",
                                        <<NumberLiteral("0", <<2, 1, 1, 1>>)>>, <<2, 1, 1>>),
                                      ParsedCall("exp",
                                        <<NumberLiteral("2", <<2, 1, 2, 1>>),
                                          NumberLiteral("224", <<2, 1, 2, 2>>)>>, <<2, 1, 2>>)>>,
                                    <<2, 1>>),
                       location |-> IRGenerated(<<2, 1>>)]>>,
                  location |-> IRGenerated(<<2, 0>>)],
        location |-> IRGenerated(<<2>>)] >>

\* what assembly::Parser::parse can hand back for the snippet: the parsed
\* block, no block, or a block together with reported errors (the parser is
\* not part of this file, its outcome is an input of appendFunction)
ParserOutcomes ==
    {[result |-> [stmt |-> "Block", statements |-> DispatcherHelpers,
                  location |-> IRGenerated(<<0>>)],
      errors |-> << >>],
     [result |-> NullPtr, errors |-> <<"ParserError">>],
     [result |-> [stmt |-> "Block", statements |-> DispatcherHelpers,
                  location |-> IRGenerated(<<0>>)],
      errors |-> <<"ParserError">>]}

\* the loop of appendFunction: the parsed statements are moved, one by one,
\* to the end of the block m_body points to
RECURSIVE appendStatements(_, _, _)
appendStatements(block, statements, i) ==
    IF i > Len(statements) THEN block
    ELSE appendStatements([block EXCEPT !.statements = Append(@, statements[i])],
                          statements, i + 1)

\* IRGenerate::appendFunction on the block m_body points to: NullPtr stands
\* for a failed solAssert, which leaves the block as it was
appendFunction(block, parsed) ==
    IF parsed.result = NullPtr THEN NullPtr
    ELSE IF parsed.errors # << >> THEN NullPtr
    ELSE appendStatements(block, parsed.result.statements, 1)

\* buildDispatcher appending the helpers after the switch
buildDispatcherHelpersLast(block, _contract, parsed) ==
    appendFunction([block EXCEPT !.statements = Append(@, dispatcherSwitch(_contract))],
                   parsed)

\* IRGenerate::buildDispatcher, as the new value of the block m_body points
\* to; NullPtr when appendFunction throws
buildDispatcher(block, _contract, parsed) ==
    LET withHelpers == appendFunction(block, parsed)
    IN  IF withHelpers = NullPtr THEN NullPtr
        ELSE [withHelpers EXCEPT !.statements = Append(@, dispatcherSwitch(_contract))]

-----------------------------------------------------------------------------
(* The restrictions *)

\* the restrictions without the line on events
contractRestrictionEventsAllowed(_contract) ==
    IF _contract.contractKind # "Contract"
        THEN "Non-contracts (libraries, interfaces) are not supported yet."
    ELSE IF _contract.baseContracts # << >> THEN "Inheritance not supported yet."
    ELSE IF _contract.definedStructs # << >> THEN "User-defined types not supported yet."
    ELSE IF _contract.definedEnums # << >> THEN "User-defined types not supported yet."
    ELSE IF _contract.functionModifiers # << >> THEN "Modifiers not supported yet."
    ELSE ""

\* the solUnimplementedAssert lines of visit(ContractDefinition), in order:
\* the message of the first that fails, "" if none does
contractRestriction(_contract) ==
    IF _contract.contractKind # "Contract"
        THEN "Non-contracts (libraries, interfaces) are not supported yet."
    ELSE IF _contract.baseContracts # << >> THEN "Inheritance not supported yet."
    ELSE IF _contract.definedStructs # << >> THEN "User-defined types not supported yet."
    ELSE IF _contract.definedEnums # << >> THEN "User-defined types not supported yet."
    ELSE IF _contract.events # << >> THEN "Events not supported yet."
    ELSE IF _contract.functionModifiers # << >> THEN "Modifiers not supported yet."
    ELSE ""

\* the solUnimplementedAssert lines of visit(FunctionDefinition), in order
functionRestriction(_function) ==
    IF ~_function.isImplemented THEN "Unimplemented functions not supported yet."
    ELSE IF _function.modifiers # << >> THEN "Modifiers not supported yet."
    ELSE IF _function.parameters # << >> THEN "Parameters not supported yet."
    ELSE IF _function.returnParameters # << >> THEN "Return parameters not supported yet."
    ELSE ""

\* the registration without its assertion
isRegisteredNever(name) == FALSE

\* the condition the registration asserts to be false
isRegistered(name) == m_contracts[name] # NullPtr

-----------------------------------------------------------------------------
(* The visitor *)

NoContract ==
    [name |-> "", contractKind |-> "Contract", baseContracts |-> << >>,
     definedStructs |-> << >>, definedEnums |-> << >>, events |-> << >>,
     functionModifiers |-> << >>, definedFunctions |-> << >>, location |-> DefaultLocation]

\* the ContractDefinition node of the given name, attributes and functions
ContractNode(cname, h, fs) ==
    [name |-> cname, contractKind |-> h.contractKind, baseContracts |-> h.baseContracts,
     definedStructs |-> h.definedStructs, definedEnums |-> h.definedEnums,
     events |-> h.events, functionModifiers |-> h.functionModifiers,
     definedFunctions |-> DefinedFunctions(cname, fs), location |-> <<cname>>]

InitScope(s) ==
    /\ scope = s
    /\ m_contracts = [n \in ContractNames(s) |-> NullPtr]
    /\ m_body = ""
    /\ m_currentFunction = [stmt |-> "FunctionDefinition", name |-> EmptyString,
                            arguments |-> << >>, returns |-> << >>,
                            body |-> EmptyBlock, location |-> DefaultLocation]
    /\ pc = "idle"
    /\ call = NoContract
    /\ idx = 0
    /\ stack = << >>
    /\ error = NoError

Init == InitScope("dispatch")

InitLowering == InitScope("lowering")

InitRegistry == InitScope("registry")

\* bool IRGenerate::visit(ContractDefinition const& _contract), up to the call
\* of listAccept.  The functions are read once the block is registered.
VisitContract(cname, h) ==
    /\ pc = "idle"
    /\ LET _contract == ContractNode(cname, h, << >>)
       IN  IF contractRestriction(_contract) # ""
           THEN /\ error' = UnsupportedFeature(contractRestriction(_contract))
                /\ call' = _contract
                /\ idx' = 0
                /\ UNCHANGED <<m_contracts, m_body, m_currentFunction, pc, stack, scope>>
           ELSE IF isRegistered(fullyQualifiedName(_contract))
           THEN /\ error' = InternalInconsistency
                /\ call' = _contract
                /\ idx' = 0
                /\ UNCHANGED <<m_contracts, m_body, m_currentFunction, pc, stack, scope>>
           ELSE \E fs \in FunctionLists(scope) :
                /\ m_body' = fullyQualifiedName(_contract)
                /\ m_contracts' = [m_contracts EXCEPT ![fullyQualifiedName(_contract)] =
                                      [EmptyBlock EXCEPT !.location = _contract.location]]
                /\ call' = ContractNode(cname, h, fs)
                /\ idx' = 1
                /\ pc' = "listAccept"
                /\ error' = NoError
                /\ UNCHANGED <<m_currentFunction, stack, scope>>

\* bool IRGenerate::visit(FunctionDefinition const& _function), up to the
\* traversal of the body; attrs are the attributes the restrictions read
VisitFunction(attrs) ==
    /\ pc = "listAccept"
    /\ idx <= Len(call.definedFunctions)
    /\ LET _function == call.definedFunctions[idx]
       IN  IF functionRestriction(attrs) # ""
           THEN /\ error' = UnsupportedFeature(functionRestriction(attrs))
                /\ pc' = "idle"
                /\ UNCHANGED <<m_contracts, m_body, m_currentFunction, call, idx, stack, scope>>
           ELSE /\ m_currentFunction' =
                      [stmt |-> "FunctionDefinition", name |-> uniqueFunctionName(_function),
                       arguments |-> << >>, returns |-> << >>,
                       body |-> EmptyBlock, location |-> _function.location]
                /\ stack' = <<_function.body>>
                /\ pc' = "body"
                /\ UNCHANGED <<m_contracts, m_body, call, idx, error, scope>>

\* the statements of a block accepted after the statements that follow it
blockStatementsDeferred(_node, rest) == rest \o _node.statements

\* the loop of visit(Block): the statements of the block are accepted, in
\* order, before visit returns to the statements that follow the block
blockStatements(_node, rest) == _node.statements \o rest

\* bool IRGenerate::visit(Block const& _node)
VisitBlock ==
    /\ pc = "body"
    /\ stack # << >>
    /\ Head(stack).kind = "Block"
    /\ stack' = blockStatements(Head(stack), Tail(stack))
    /\ UNCHANGED <<m_contracts, m_body, m_currentFunction, pc, call, idx, error, scope>>

\* the revert call visit(Throw) appends
throwStatement(_throw) == [createRevert EXCEPT !.location = _throw.location]

\* bool IRGenerate::visit(Throw const& _throw)
VisitThrow ==
    /\ pc = "body"
    /\ stack # << >>
    /\ Head(stack).kind = "Throw"
    /\ m_currentFunction' = [m_currentFunction EXCEPT
                                !.body.statements = Append(@, throwStatement(Head(stack)))]
    /\ stack' = Tail(stack)
    /\ UNCHANGED <<m_contracts, m_body, pc, call, idx, error, scope>>

\* the statement visit(InlineAssembly) appends
inlineAssemblyStatement(_inlineAssembly) == _inlineAssembly.operations

\* bool IRGenerate::visit(InlineAssembly const& _inlineAssembly)
VisitInlineAssembly ==
    /\ pc = "body"
    /\ stack # << >>
    /\ Head(stack).kind = "InlineAssembly"
    /\ m_currentFunction' = [m_currentFunction EXCEPT
                                !.body.statements = Append(@, inlineAssemblyStatement(Head(stack)))]
    /\ stack' = Tail(stack)
    /\ UNCHANGED <<m_contracts, m_body, pc, call, idx, error, scope>>

\* the value endVisit leaves in m_currentFunction
afterCommit(_currentFunction) == _currentFunction

\* void IRGenerate::endVisit(FunctionDefinition const&), called by
\* FunctionDefinition::accept once visit has returned
EndVisitFunction ==
    /\ pc = "body"
    /\ stack = << >>
    /\ m_contracts' = [m_contracts EXCEPT ![m_body].statements = Append(@, m_currentFunction)]
    /\ m_currentFunction' = afterCommit(m_currentFunction)
    /\ idx' = idx + 1
    /\ pc' = "listAccept"
    /\ UNCHANGED <<m_body, call, stack, error, scope>>

\* the rest of visit(ContractDefinition): listAccept has returned,
\* buildDispatcher(_contract) runs and the visit returns
BuildDispatcher(parsed) ==
    /\ pc = "listAccept"
    /\ idx > Len(call.definedFunctions)
    /\ LET built == buildDispatcher(m_contracts[m_body], call, parsed)
       IN  IF built = NullPtr
           THEN /\ error' = InternalInconsistency
                /\ UNCHANGED m_contracts
           ELSE /\ m_contracts' = [m_contracts EXCEPT ![m_body] = built]
                /\ UNCHANGED error
    /\ pc' = "idle"
    /\ UNCHANGED <<m_body, m_currentFunction, call, idx, stack, scope>>

Next ==
    \/ \E cname \in ContractNames(scope), h \in HeadersOf(scope) : VisitContract(cname, h)
    \/ \E attrs \in FunctionAttributes : VisitFunction(attrs)
    \/ VisitBlock
    \/ VisitThrow
    \/ VisitInlineAssembly
    \/ EndVisitFunction
    \/ \E parsed \in ParserOutcomes : BuildDispatcher(parsed)

\* contracts with every combination of externally callable, internal, payable
\* and fallback functions
Spec == Init /\ [][Next]_vars

\* contracts whose function bodies are all the statement trees that together
\* hold at most MaxStmts nodes
SpecLowering == InitLowering /\ [][Next]_vars

\* two contracts sharing the registry
SpecRegistry == InitRegistry /\ [][Next]_vars

-----------------------------------------------------------------------------
(* What the claims speak about *)

\* the latest visit(ContractDefinition) has returned normally
Generated == pc = "idle" /\ error = NoError /\ call.name # ""

\* the statements of the block registered for the contract visited latest
Statements == m_contracts[call.name].statements

Functions == call.definedFunctions

\* the positions of the externally callable functions
External == {i \in 1..Len(Functions) : Functions[i].isPartOfExternalInterface}

\* the k-th externally callable function in declaration order
KthExternal(k) ==
    Functions[CHOOSE i \in External : Cardinality({j \in External : j <= i}) = k]

\* the positions of the switch statements at the top level of the block
Switches == {i \in 1..Len(Statements) : Statements[i].stmt = "Switch"}

\* the positions of the function definitions of the given name at the top level
Definitions(name) ==
    {i \in 1..Len(Statements) :
        Statements[i].stmt = "FunctionDefinition" /\ Statements[i].name = name}

CanonicalSignature(f) == f.name \o <<"(", ")">>

\* 0x<selector of the canonical signature>, typed u256
SelectorOf(f) ==
    [stmt |-> "Literal", kind |-> "Number",
     value |-> <<"0x">> \o toHex(FixedHash4(keccak256(CanonicalSignature(f)))),
     type |-> <<"u256">>]

\* _<source-name>_<hex(keccak256(canonical-signature))>, fallback for the fallback
InternalName(f) ==
    IF f.name = << >> THEN <<"fallback">>
    ELSE <<"_">> \o f.name \o <<"_">> \o toHex(keccak256(CanonicalSignature(f)))

IsCallOf(statement, name) ==
    statement.stmt = "FunctionCall" /\ statement.functionName = name

ZeroU256(x) ==
    x.stmt = "Literal" /\ x.kind = "Number" /\ x.value = <<"0">> /\ x.type = <<"u256">>

IsRevert(statement) ==
    /\ IsCallOf(statement, <<"revert">>)
    /\ Len(statement.arguments) = 2
    /\ ZeroU256(statement.arguments[1])
    /\ ZeroU256(statement.arguments[2])

\* a case body of the dispatcher: the guard iff the function is not payable,
\* then the call of the function
GuardedCall(body, f) ==
    LET st == body.statements
    IN  /\ Len(st) >= 1
        /\ IsCallOf(st[1], <<"ensureNoValueTransfer">>) <=> ~f.isPayable
        /\ IsCallOf(st[Len(st)], InternalName(f))
        /\ Len(st) = IF f.isPayable THEN 1 ELSE 2

Last(seq) == seq[Len(seq)]

-----------------------------------------------------------------------------
(* C1 *)

\* C1: after a contract with N externally callable functions is generated, the
\* dispatcher switch has N+1 cases; case i carries the u256 selector literal of
\* the i-th externally callable function in declaration order; the default
\* case is the last case and the only one; other functions get no case.
C1_DispatcherCases ==
    Generated =>
        /\ Switches # {}
        /\ \A s \in Switches :
            LET cases == Statements[s].cases
                N == Cardinality(External)
            IN  /\ Len(cases) = N + 1
                /\ \A k \in 1..N : cases[k].value = SelectorOf(KthExternal(k))
                /\ cases[N + 1].value = NullPtr

\* two externally callable functions, g declared before f, and their cases
C1_Witness ==
    /\ Generated
    /\ Len(Functions) = 2
    /\ External = {1, 2}
    /\ Functions[1].name = <<"g">>
    /\ Len(Last(Statements).cases) = 3

\* C2: every selector case body begins with the ensureNoValueTransfer call iff
\* its function is not payable, and ends with the call of the function's
\* unique internal name.
C2_GuardIffNotPayable ==
    Generated =>
        \A s \in Switches :
            LET cases == Statements[s].cases
            IN  \A k \in 1..Len(cases) :
                    cases[k].value # NullPtr =>
                        /\ k <= Cardinality(External)
                        /\ GuardedCall(cases[k].body, KthExternal(k))

\* a payable and a non-payable function side by side
C2_Witness ==
    /\ Generated
    /\ External = {1, 2}
    /\ Functions[1].isPayable
    /\ ~Functions[2].isPayable
    /\ Len(Last(Statements).cases[2].body.statements) = 2

\* C3: the default case body calls fallback, guarded iff the fallback is not
\* payable, when a fallback is declared; otherwise it is the single statement
\* revert(0:u256, 0:u256).
C3_DefaultCase ==
    Generated =>
        \A s \in Switches :
            LET cases == Statements[s].cases
                fallbacks == {i \in 1..Len(Functions) : Functions[i].name = << >>}
            IN  \A k \in 1..Len(cases) :
                    cases[k].value = NullPtr =>
                        IF fallbacks # {}
                        THEN \A i \in fallbacks : GuardedCall(cases[k].body, Functions[i])
                        ELSE /\ Len(cases[k].body.statements) = 1
                             /\ IsRevert(cases[k].body.statements[1])

\* a non-payable fallback next to an external function
C3_Witness ==
    /\ Generated
    /\ Len(Functions) = 2
    /\ Functions[2].name = << >>
    /\ ~Functions[2].isPayable
    /\ External = {1}
    /\ Len(Last(Last(Statements).cases).body.statements) = 2

-----------------------------------------------------------------------------
(* C4, C5, C7: failures and the registry *)

\* the restrictions on a contract, and the text that names each
ContractRestrictions ==
    {"contract kind", "inheritance", "user-defined types", "events", "modifiers"}

Violates(c, r) ==
    IF r = "contract kind" THEN c.contractKind # "Contract"
    ELSE IF r = "inheritance" THEN c.baseContracts # << >>
    ELSE IF r = "user-defined types" THEN c.definedStructs # << >> \/ c.definedEnums # << >>
    ELSE IF r = "events" THEN c.events # << >>
    ELSE c.functionModifiers # << >>

Naming(r) ==
    IF r = "contract kind" THEN "Non-contracts (libraries, interfaces) are not supported yet."
    ELSE IF r = "inheritance" THEN "Inheritance not supported yet."
    ELSE IF r = "user-defined types" THEN "User-defined types not supported yet."
    ELSE IF r = "events" THEN "Events not supported yet."
    ELSE "Modifiers not supported yet."

Violated(c) == {r \in ContractRestrictions : Violates(c, r)}

\* the latest visit(ContractDefinition) was ended by a restriction of
\* visit(FunctionDefinition)
FunctionRejected == pc = "idle" /\ error.kind = "UnsupportedFeature" /\ idx > 0

\* C4: a visit of a contract that violates a contract-level restriction fails
\* with UnsupportedFeature naming a restriction the contract violates, and
\* creates and registers no block: the registry and m_body are as before.
C4_ContractRestrictions ==
    [][(pc = "idle" /\ Violated(call') # {}) =>
            /\ error'.kind = "UnsupportedFeature"
            /\ \E r \in Violated(call') : error'.message = Naming(r)
            /\ m_contracts' = m_contracts
            /\ m_body' = m_body
            /\ pc' = "idle"]_vars

\* a contract declaring an event (and nothing else that is restricted) was
\* rejected while the other contract has its block
C4_Witness ==
    /\ pc = "idle"
    /\ Violated(call) = {"events"}
    /\ error = UnsupportedFeature("Events not supported yet.")
    /\ m_contracts[call.name] = NullPtr
    /\ \E n \in DOMAIN m_contracts : m_contracts[n] # NullPtr

\* C5: once visit(FunctionDefinition) has failed with UnsupportedFeature, the
\* registry holds no block for the contract.
C5_NoPartialBlock ==
    FunctionRejected => m_contracts[call.name] = NullPtr

\* the latest visit(ContractDefinition) failed before it touched the registry,
\* and the name of its contract has a registered block
DuplicateVisitFailed ==
    /\ pc = "idle"
    /\ idx = 0
    /\ call.name # ""
    /\ error # NoError
    /\ m_contracts[call.name] # NullPtr

\* C7 as claimed: a visit of a contract whose name has a registered block
\* fails with InternalInconsistency.
C7_AlwaysInternalInconsistency ==
    DuplicateVisitFailed => error = InternalInconsistency

\* C7 as amended: a visit of a contract whose name has a registered block
\* fails, with InternalInconsistency when the contract passes the
\* contract-level restrictions and with UnsupportedFeature when it violates
\* one, and leaves the registry as it was; no step removes a registered block
\* or touches the block of a contract other than the one being generated.
C7_DuplicateRejected ==
    [][/\ (pc = "idle" /\ m_contracts[call'.name] # NullPtr) =>
            /\ Violated(call') = {} => error' = InternalInconsistency
            /\ Violated(call') # {} => error'.kind = "UnsupportedFeature"
            /\ m_contracts' = m_contracts
            /\ pc' = "idle"
       /\ \A n \in DOMAIN m_contracts :
            /\ m_contracts[n] # NullPtr => m_contracts'[n] # NullPtr
            /\ n # m_body' => m_contracts'[n] = m_contracts[n]]_vars

\* a generated contract was visited again and rejected by the registration,
\* and the other contract is registered too
C7_Witness ==
    /\ DuplicateVisitFailed
    /\ error = InternalInconsistency
    /\ Len(m_contracts[call.name].statements) > 0
    /\ \A n \in DOMAIN m_contracts : m_contracts[n] # NullPtr

-----------------------------------------------------------------------------
(* C6, C10: the block *)

\* C6: the block of a generated contract is one function definition per
\* defined function in declaration order, then ensureNoValueTransfer, then
\* extractCallSignature, then the switch, which is the only switch at the
\* top level.
C6_BlockLayout ==
    Generated =>
        LET n == Len(Functions)
        IN  /\ Len(Statements) = n + 3
            /\ \A i \in 1..n :
                /\ Definitions(InternalName(Functions[i])) = {i}
                /\ Statements[i].location = Functions[i].location
            /\ Definitions(<<"ensureNoValueTransfer">>) = {n + 1}
            /\ Definitions(<<"extractCallSignature">>) = {n + 2}
            /\ Switches = {n + 3}

\* a block of two functions, two helpers and the switch
C6_Witness ==
    /\ Generated
    /\ Len(Functions) = 2
    /\ Len(Statements) = 5
    /\ Statements[5].stmt = "Switch"
    /\ Statements[1].name = InternalName(Functions[1])

\* the names the dispatcher switch calls: its expression and the calls of its
\* case bodies, the built-in revert aside
CalledNames(switch) ==
    ({switch.expression.functionName}
        \cup UNION {{switch.cases[k].body.statements[j].functionName :
                        j \in 1..Len(switch.cases[k].body.statements)} :
                    k \in 1..Len(switch.cases)})
    \ {<<"revert">>}

\* C10: every name the dispatcher of a generated contract calls is the name of
\* exactly one function definition at the top level of the block, and the
\* names of the function definitions at the top level are pairwise distinct.
C10_DispatchTargets ==
    Generated =>
        /\ \A s \in Switches :
            \A name \in CalledNames(Statements[s]) : Cardinality(Definitions(name)) = 1
        /\ \A i, j \in 1..Len(Statements) :
            (/\ i # j
             /\ Statements[i].stmt = "FunctionDefinition"
             /\ Statements[j].stmt = "FunctionDefinition")
                => Statements[i].name # Statements[j].name

\* the dispatcher calls both helpers, a user function and the fallback
C10_Witness ==
    /\ Generated
    /\ Len(Functions) = 2
    /\ Functions[1].name = <<"f">>
    /\ \E s \in Switches :
        CalledNames(Statements[s]) =
            {<<"extractCallSignature">>, <<"ensureNoValueTransfer">>, <<"fallback">>,
             InternalName(Functions[1])}

-----------------------------------------------------------------------------
(* C8, C9: the current function *)

\* C8: whenever no function is being visited, the current-function context
\* holds no function name and no statements.
C8_ContextCleared ==
    pc # "body" =>
        /\ m_currentFunction.name = << >>
        /\ m_currentFunction.body.statements = << >>

\* the statements a statement list lowers to: one revert per throw, tagged
\* with the location of the throw, one passthrough per inline assembly, in
\* depth-first source order
RECURSIVE Lowered(_)
Lowered(stmts) ==
    IF stmts = << >> THEN << >>
    ELSE LET s == Head(stmts)
             first == IF s.kind = "Throw"
                        THEN <<[stmt |-> "FunctionCall", functionName |-> <<"revert">>,
                                arguments |-> <<[stmt |-> "Literal", kind |-> "Number",
                                                 value |-> <<"0">>, type |-> <<"u256">>],
                                                [stmt |-> "Literal", kind |-> "Number",
                                                 value |-> <<"0">>, type |-> <<"u256">>]>>,
                                location |-> s.location]>>
                      ELSE IF s.kind = "InlineAssembly" THEN <<s.operations>>
                      ELSE Lowered(s.statements)
         IN  first \o Lowered(Tail(stmts))

\* C9: the body of the function definition committed for each function of a
\* generated contract is the flat lowering of that function's body.
C9_FlatLowering ==
    Generated =>
        \A i \in 1..Len(Functions) :
            /\ i <= Len(Statements)
            /\ Statements[i].stmt = "FunctionDefinition"
            /\ Statements[i].body.statements = Lowered(Functions[i].body.statements)

\* the first function has a nested block holding a throw, followed by an
\* inline assembly; the second function has a throw of its own
C9_Witness ==
    /\ Generated
    /\ Len(Functions) = 2
    /\ Len(Functions[1].body.statements) = 2
    /\ Functions[1].body.statements[1].kind = "Block"
    /\ Len(Functions[1].body.statements[1].statements) = 1
    /\ Functions[1].body.statements[1].statements[1].kind = "Throw"
    /\ Functions[1].body.statements[2].kind = "InlineAssembly"
    /\ Len(Functions[2].body.statements) = 1
    /\ Functions[2].body.statements[1].kind = "Throw"
    /\ Len(Statements[1].body.statements) = 2
    /\ Statements[1].body.statements[1].stmt = "FunctionCall"
    /\ Statements[1].body.statements[2].stmt = "Block"
    /\ Len(Statements[2].body.statements) = 1

====
